---- MODULE Spec2Model ----
(***************************************************************************)
(* Model of the items API of the backend (routes/items.js, utils/readData, *)
(* utils/writeData) behind the JSON error middleware.                      *)
(*                                                                         *)
(* Strings that the code inspects character by character (query            *)
(* parameters, item names) are sequences of one-character strings, so that *)
(* parseInt, toLowerCase and includes are computed, not assumed.           *)
(***************************************************************************)
EXTENDS Integers, Sequences, FiniteSets, TLC

\* Largest number of records in the data file at start-up.
MaxItems == 3

----------------------------------------------------------------------------
\* Built-ins of the language the handlers call

\* req.query.page / req.query.limit / req.query.q when the parameter is absent
Undefined == <<"undefined">>

Digits == {"0", "1", "2", "3", "4", "5", "6", "7", "8", "9"}

DigitVal(c) ==
  CASE c = "0" -> 0 [] c = "1" -> 1 [] c = "2" -> 2 [] c = "3" -> 3
    [] c = "4" -> 4 [] c = "5" -> 5 [] c = "6" -> 6 [] c = "7" -> 7
    [] c = "8" -> 8 [] c = "9" -> 9

WhiteSpace == {" "}

RECURSIVE TrimStart(_)
TrimStart(s) ==
  IF s # <<>> /\ Head(s) \in WhiteSpace THEN TrimStart(Tail(s)) ELSE s

RECURSIVE DigitPrefix(_)
DigitPrefix(s) ==
  IF s # <<>> /\ Head(s) \in Digits
    THEN <<Head(s)>> \o DigitPrefix(Tail(s))
    ELSE <<>>

RECURSIVE MathInt(_)
MathInt(ds) ==
  IF ds = <<>> THEN 0
  ELSE 10 * MathInt(SubSeq(ds, 1, Len(ds) - 1)) + DigitVal(ds[Len(ds)])

\* parseInt(s, 10): leading white space is skipped, one sign is taken, then
\* the longest prefix of decimal digits is read and the rest is ignored;
\* NaN when that prefix is empty.
ParseInt(s) ==
  LET t      == TrimStart(s)
      neg    == t # <<>> /\ Head(t) = "-"
      signed == t # <<>> /\ Head(t) \in {"+", "-"}
      u      == IF signed THEN Tail(t) ELSE t
      z      == DigitPrefix(u)
  IN  IF z = <<>>
        THEN [nan |-> TRUE, val |-> 0]
        ELSE [nan |-> FALSE, val |-> IF neg THEN 0 - MathInt(z) ELSE MathInt(z)]

LowerChar(c) ==
  CASE c = "M" -> "m" [] c = "O" -> "o" [] c = "K" -> "k" [] c = "X" -> "x"
    [] OTHER -> c

\* String.prototype.toLowerCase
ToLowerCase(s) == [i \in 1..Len(s) |-> LowerChar(s[i])]

RECURSIVE StartsWith(_, _)
StartsWith(s, p) ==
  IF p = <<>> THEN TRUE
  ELSE IF s = <<>> THEN FALSE
  ELSE Head(s) = Head(p) /\ StartsWith(Tail(s), Tail(p))

\* String.prototype.includes: scan the start positions from the left
RECURSIVE Includes(_, _)
Includes(s, p) ==
  IF StartsWith(s, p) THEN TRUE
  ELSE IF s = <<>> THEN FALSE
  ELSE Includes(Tail(s), p)

Min(a, b) == IF a < b THEN a ELSE b

\* Array.prototype.slice(start, end) for 0 <= start <= end (0-based, end
\* exclusive, clipped to the array)
Slice(arr, start, end) == SubSeq(arr, start + 1, Min(end, Len(arr)))

\* Math.ceil(a / b) for a >= 0, b >= 1
CeilDiv(a, b) == IF a % b = 0 THEN a \div b ELSE (a \div b) + 1

----------------------------------------------------------------------------
\* Inputs

\* Raw values of ?page= and ?limit= as Express hands them over
RawNumbers ==
  { Undefined, <<>>,
    <<"0">>, <<"1">>, <<"2">>, <<"3">>, <<"4">>, <<"0", "2">>,
    <<"-", "1">>, <<"a">>, <<"2", "a">>, <<"1", ".", "5">>, <<" ", "2">> }

\* Raw values of ?q=
RawQueries ==
  { Undefined, <<>>, <<"m", "o">>, <<"M", "O">>, <<"o">>, <<"k">>,
    <<"o", "m">>, <<"x">> }

\* Raw values of the :id path segment
RawIds ==
  { <<"1">>, <<"2">>, <<"3">>, <<"4">>, <<"9">>, <<"0", "1">>, <<"a">>,
    <<"1", "a">>, <<"-", "1">>, <<"2", ".", "9">> }

\* Records the data file may hold
Catalog ==
  { [id |-> 1, name |-> <<"M", "o">>,      price |-> 1200, description |-> <<"k">>],
    [id |-> 2, name |-> <<"o", "m">>,      price |-> 25,   description |-> <<"m", "o">>],
    [id |-> 3, name |-> <<"K", "o">>,      price |-> 50,   description |-> <<"x">>],
    [id |-> 4, name |-> <<"m", "O", "m">>, price |-> 75,   description |-> <<"M">>] }

\* Contents of data/items.json: arrays of records with distinct ids
StoredArrays ==
  UNION { { s \in [1..n -> Catalog] :
              \A i, j \in 1..n : i # j => s[i].id # s[j].id } : n \in 0..MaxItems }

\* The data file: absent, unreadable, not JSON, or a JSON array of records
InitialFiles ==
  { [state |-> "ENOENT",    items |-> <<>>],
    [state |-> "EACCES",    items |-> <<>>],
    [state |-> "malformed", items |-> <<>>] }
  \cup { [state |-> "ok", items |-> s] : s \in StoredArrays }

----------------------------------------------------------------------------
\* utils/readData.js and the error middleware

\* Variant: a missing file is an error like any other
ReadDataNoDefault(f) ==
  CASE f.state = "ok"        -> [threw |-> FALSE, value |-> f.items,
                                 err |-> [status |-> 0, message |-> ""]]
    [] f.state = "ENOENT"    -> [threw |-> TRUE, value |-> <<>>,
                                 err |-> [status |-> 0, message |-> "ENOENT: no such file or directory"]]
    [] f.state = "EACCES"    -> [threw |-> TRUE, value |-> <<>>,
                                 err |-> [status |-> 0, message |-> "EACCES: permission denied"]]
    [] f.state = "malformed" -> [threw |-> TRUE, value |-> <<>>,
                                 err |-> [status |-> 0, message |-> "Unexpected end of JSON input"]]
    [] f.state = "object"    -> [threw |-> FALSE, value |-> <<>>, notArray |-> TRUE,
                                 err |-> [status |-> 0, message |-> ""]]

\* Variant: every failure of the read is turned into the empty array
ReadDataSwallows(f) ==
  IF f.state = "ok"
    THEN [threw |-> FALSE, value |-> f.items,
          err |-> [status |-> 0, message |-> ""]]
    ELSE [threw |-> FALSE, value |-> <<>>,
          err |-> [status |-> 0, message |-> ""]]

\* readData(): the parsed array; [] when the file does not exist; any other
\* failure of readFile or JSON.parse is thrown again (no status on the error).
\* A file that holds JSON other than an array ("object") is parsed and
\* returned as it is.
ReadData(f) ==
  CASE f.state = "ok"        -> [threw |-> FALSE, value |-> f.items,
                                 err |-> [status |-> 0, message |-> ""]]
    [] f.state = "ENOENT"    -> [threw |-> FALSE, value |-> <<>>,
                                 err |-> [status |-> 0, message |-> ""]]
    [] f.state = "EACCES"    -> [threw |-> TRUE, value |-> <<>>,
                                 err |-> [status |-> 0, message |-> "EACCES: permission denied"]]
    [] f.state = "malformed" -> [threw |-> TRUE, value |-> <<>>,
                                 err |-> [status |-> 0, message |-> "Unexpected end of JSON input"]]
    [] f.state = "object"    -> [threw |-> FALSE, value |-> <<>>, notArray |-> TRUE,
                                 err |-> [status |-> 0, message |-> ""]]

\* Array.isArray of what readData() returned
IsArray(r) == "notArray" \notin DOMAIN r

\* (err, req, res, next) => res.status(err.status || 500)
\*                             .json({ message: err.message || "Internal Server Error" })
\* status 0 stands for an error that carries no status
ErrorMiddleware(err) ==
  [status  |-> IF err.status = 0 THEN 500 ELSE err.status,
   message |-> IF err.message = "" THEN "Internal Server Error" ELSE err.message,
   body    |-> <<>>]

\* res.json(body) / res.status(code).json(body)
Json(code, body) == [status |-> code, message |-> "", body |-> body]

----------------------------------------------------------------------------
\* GET /api/items

InvalidPageOrLimit ==
  [status |-> 400,
   message |-> "Invalid page or limit parameters. Must be positive numbers."]

DefaultPage == 1
DefaultLimit == 2

\* Variant: parseInt applied without the `!== undefined` test, so an absent
\* parameter is NaN and rejected
ParseParamNoDefault(raw, default) ==
  LET n == IF raw = Undefined THEN [nan |-> TRUE, val |-> 0] ELSE ParseInt(raw)
  IN  IF n.nan \/ n.val < 1
        THEN [threw |-> TRUE, num |-> 0]
        ELSE [threw |-> FALSE, num |-> n.val]

\* The block that validates and parses one of page / limit: a supplied value
\* goes through parseInt and is rejected when NaN or below 1; an absent one
\* takes the default.
ParseParam(raw, default) ==
  IF raw # Undefined
    THEN LET n == ParseInt(raw)
         IN  IF n.nan \/ n.val < 1
               THEN [threw |-> TRUE, num |-> 0]
               ELSE [threw |-> FALSE, num |-> n.val]
    ELSE [threw |-> FALSE, num |-> default]

\* Variant: the comparison without toLowerCase
FilterItemsCaseSensitive(items, q) ==
  IF q # Undefined /\ q # <<>>
    THEN SelectSeq(items, LAMBDA item : Includes(item.name, q))
    ELSE items

\* if (q) filteredItems = filteredItems.filter(item =>
\*          item.name.toLowerCase().includes(q.toLowerCase()))
FilterItems(items, q) ==
  IF q # Undefined /\ q # <<>>
    THEN SelectSeq(items, LAMBDA item :
           Includes(ToLowerCase(item.name), ToLowerCase(q)))
    ELSE items

\* Variant: Math.floor in place of Math.ceil
TotalPagesFloor(totalItems, limit) ==
  IF totalItems = 0 THEN 0 ELSE totalItems \div limit

\* let totalPages = Math.ceil(totalItems / limitNum), forced to 0 when no
\* item is left after filtering
TotalPages(totalItems, limit) ==
  IF totalItems = 0 THEN 0 ELSE CeilDiv(totalItems, limit)

\* Variant: pageNum never reset
CurrentPageAsRequested(totalItems, page) == page

\* pageNum as reported: reset to 1 when no item is left, otherwise the
\* requested page, also when it lies beyond totalPages
CurrentPage(totalItems, page) ==
  IF totalItems = 0 THEN 1 ELSE page

\* Variant: an out-of-bounds page is served the last page
PaginatedItemsLastPage(filtered, page, limit) ==
  LET totalItems == Len(filtered)
      totalPages == CeilDiv(totalItems, limit)
      shown      == IF page > totalPages THEN totalPages ELSE page
      startIndex == (shown - 1) * limit
      endIndex   == startIndex + limit
  IN  IF totalItems = 0 THEN <<>>
      ELSE Slice(filtered, startIndex, endIndex)

\* Variant: pages after the first start one record early
PaginatedItemsOverlap(filtered, page, limit) ==
  LET totalItems == Len(filtered)
      totalPages == CeilDiv(totalItems, limit)
      startIndex == IF page > 1 THEN (page - 1) * limit - 1
                                ELSE 0
      endIndex   == startIndex + limit
  IN  IF totalItems = 0 THEN <<>>
      ELSE IF page > totalPages THEN <<>>
      ELSE Slice(filtered, startIndex, endIndex)

\* Variant: startIndex computed as pageNum * limitNum
PaginatedItemsSkipFirst(filtered, page, limit) ==
  LET totalItems == Len(filtered)
      totalPages == CeilDiv(totalItems, limit)
      startIndex == page * limit
      endIndex   == startIndex + limit
  IN  IF totalItems = 0 THEN <<>>
      ELSE IF page > totalPages THEN <<>>
      ELSE Slice(filtered, startIndex, endIndex)

\* paginatedItems: the three cases of the pagination logic
PaginatedItems(filtered, page, limit) ==
  LET totalItems == Len(filtered)
      totalPages == CeilDiv(totalItems, limit)
      startIndex == (page - 1) * limit
      endIndex   == startIndex + limit
  IN  IF totalItems = 0 THEN <<>>
      ELSE IF page > totalPages THEN <<>>
      ELSE Slice(filtered, startIndex, endIndex)

HasPreviousPage(pageNum) == pageNum > 1

\* Variant: <= in place of <
HasNextPageInclusive(pageNum, totalPages) == pageNum <= totalPages

HasNextPage(pageNum, totalPages) == pageNum < totalPages

\* The body handed to res.json
Paginate(filtered, page, limit) ==
  LET totalItems == Len(filtered)
      pageNum    == CurrentPage(totalItems, page)
      totalPages == TotalPages(totalItems, limit)
  IN  [items           |-> PaginatedItems(filtered, page, limit),
       currentPage     |-> pageNum,
       itemsPerPage    |-> limit,
       totalItems      |-> totalItems,
       totalPages      |-> totalPages,
       hasPreviousPage |-> HasPreviousPage(pageNum),
       hasNextPage     |-> HasNextPage(pageNum, totalPages)]

----------------------------------------------------------------------------
\* GET /api/items/:id

ItemNotFound == [status |-> 404, message |-> "Item not found"]

\* allItems.find(i => i.id === itemId): the first match; NaN equals nothing
FindById(items, itemId) ==
  LET hits == SelectSeq(items, LAMBDA i : ~itemId.nan /\ i.id = itemId.val)
  IN  IF hits = <<>> THEN [found |-> FALSE, item |-> <<>>]
                     ELSE [found |-> TRUE, item |-> Head(hits)]

----------------------------------------------------------------------------
\* POST /api/items

\* Largest number of POST requests that pass validation in one run.
MaxCreates == 2

\* Largest number of milliseconds the clock advances in one run.
MaxTicks == 1

\* Date.now() when the first request arrives; later than every stored id
StartTime == 10

\* A field of the JSON body that is present but is not a string
NonString == <<"number">>

\* Values of body.price as express.json() delivers them: absent, a string, a
\* finite number, or Infinity (the JSON number 1e999)
NoPrice       == [kind |-> "undefined", val |-> 0]
StringPrice   == [kind |-> "string",    val |-> 0]
InfinitePrice == [kind |-> "infinity",  val |-> 0]
NumberPrice(n) == [kind |-> "number", val |-> n]

\* The JSON bodies posted
Payloads ==
  { [name |-> <<"M", "o">>, price |-> NumberPrice(10), description |-> <<"d">>, id |-> <<"1">>],
    [name |-> <<" ", "o">>, price |-> InfinitePrice,   description |-> <<"d">>, id |-> Undefined],
    [name |-> Undefined,    price |-> NumberPrice(10), description |-> <<"d">>, id |-> Undefined],
    [name |-> <<>>,         price |-> NumberPrice(10), description |-> <<"d">>, id |-> Undefined],
    [name |-> <<" ">>,      price |-> NumberPrice(10), description |-> <<"d">>, id |-> Undefined],
    [name |-> NonString,    price |-> NumberPrice(10), description |-> <<"d">>, id |-> Undefined],
    [name |-> <<"M", "o">>, price |-> NoPrice,         description |-> <<"d">>, id |-> Undefined],
    [name |-> <<"M", "o">>, price |-> StringPrice,     description |-> <<"d">>, id |-> Undefined],
    [name |-> <<"M", "o">>, price |-> NumberPrice(0),  description |-> <<"d">>, id |-> Undefined],
    [name |-> <<"M", "o">>, price |-> NumberPrice(0 - 5), description |-> <<"d">>, id |-> Undefined],
    [name |-> <<"M", "o">>, price |-> NumberPrice(10), description |-> Undefined, id |-> Undefined],
    [name |-> <<"M", "o">>, price |-> NumberPrice(10), description |-> <<" ">>, id |-> Undefined],
    [name |-> Undefined,    price |-> NoPrice,         description |-> Undefined, id |-> Undefined] }

RECURSIVE TrimEnd(_)
TrimEnd(s) ==
  IF s # <<>> /\ s[Len(s)] \in WhiteSpace
    THEN TrimEnd(SubSeq(s, 1, Len(s) - 1))
    ELSE s

\* String.prototype.trim
Trim(s) == TrimEnd(TrimStart(s))

\* !v || typeof v !== "string" || v.trim() === ""
NotNonEmptyString(v) ==
  \/ v = Undefined \/ v = <<>>
  \/ v = NonString
  \/ Trim(v) = <<>>

NameRequired ==
  [status |-> 400,
   message |-> "Item name is required and must be a non-empty string."]

PriceRequired ==
  [status |-> 400,
   message |-> "Item price is required and must be a positive number."]

CategoryRequired ==
  [status |-> 400,
   message |-> "Item category is required and must be a non-empty string."]

\* item.price === undefined || typeof item.price !== "number" ||
\* isNaN(item.price) || item.price <= 0
PriceRejected(p) ==
  \/ p.kind = "undefined"
  \/ p.kind \notin {"number", "infinity", "NaN"}
  \/ p.kind = "NaN"
  \/ (p.kind = "number" /\ p.val <= 0)

\* The three validation blocks of router.post("/"), in order: the error
\* thrown, or none
ValidateItem(item) ==
  IF NotNonEmptyString(item.name)
    THEN [threw |-> TRUE, err |-> NameRequired]
  ELSE IF PriceRejected(item.price)
    THEN [threw |-> TRUE, err |-> PriceRequired]
  ELSE IF NotNonEmptyString(item.description)
    THEN [threw |-> TRUE, err |-> CategoryRequired]
  ELSE [threw |-> FALSE, err |-> [status |-> 0, message |-> ""]]

\* JSON.stringify of an item (writeData, res.json): strings and finite
\* numbers are kept; Infinity is written as null, which reads back as null
\* and counts as 0 in arithmetic
JsonItem(item) ==
  IF item.price.kind = "number"
    THEN [id |-> item.id, name |-> item.name, price |-> item.price.val,
          description |-> item.description]
    ELSE [id |-> item.id, name |-> item.name, price |-> 0,
          description |-> item.description, nulls |-> {"price"}]

----------------------------------------------------------------------------
\* GET /api/stats and utils/worker.js

\* items.reduce((acc, cur) => acc + cur.price, 0)
RECURSIVE SumPrices(_)
SumPrices(items) ==
  IF items = <<>> THEN 0
  ELSE SumPrices(SubSeq(items, 1, Len(items) - 1)) + items[Len(items)].price

RECURSIVE Gcd(_, _)
Gcd(a, b) == IF b = 0 THEN a ELSE Gcd(b, a % b)

\* The number a / b for a >= 0, b >= 1, as a fraction in lowest terms
Quotient(a, b) == [num |-> a \div Gcd(a, b), den |-> b \div Gcd(a, b)]

\* The number n
Whole(n) == [num |-> n, den |-> 1]

\* 0 / 0
NotANumber == [num |-> 0, den |-> 0]

\* Variant: the division without the total > 0 test (the route as it was
\* before the worker)
ComputeStatsUnguarded(items) ==
  [total        |-> Len(items),
   averagePrice |-> IF Len(items) = 0 THEN NotANumber
                    ELSE Quotient(SumPrices(items), Len(items))]

\* The message handler of the worker: the stats it posts back
ComputeStats(items) ==
  LET total     == Len(items)
      sumPrices == SumPrices(items)
  IN  [total        |-> total,
       averagePrice |-> IF total > 0 THEN Quotient(sumPrices, total)
                                     ELSE Whole(0)]

\* Error raised in the worker when the message is not an array
\* (items.reduce is not a function)
WorkerTypeError == [status |-> 0, message |-> "items.reduce is not a function"]

\* Error raised in a route when readData() returned something that is not an
\* array (filter / find / push is not a function)
RouteTypeError == [status |-> 0, message |-> "not a function"]

----------------------------------------------------------------------------
\* State

VARIABLES
  file,          \* data/items.json
  pc,            \* where the request being served stands
  req,           \* the request being served
  pageNum,       \* GET /items: local pageNum after validation
  limitNum,      \* GET /items: local limitNum after validation
  allItems,      \* local allItems (what readData returned)
  filteredItems, \* GET /items: local filteredItems
  readCalls,     \* calls of fs.promises.readFile made for this request
  res,           \* the response sent
  calls,         \* the requests in flight when several are served at once
  workers,       \* the worker threads of GET /stats
  clock,         \* Date.now()
  creates,       \* POST requests that passed validation so far
  acked,         \* records answered with 201 so far
  provider,      \* DataProvider: items, loading, error, paginationInfo
  view,          \* Items: its local state and its debounce timer
  fetchCalls,    \* fetchItems calls that have not settled, oldest first
  issued,        \* fetchItems calls made so far
  latest,        \* what the fetchItems call made last has produced
  detail,        \* ItemDetail: its local state and its timers
  itemFetches    \* fetches of ItemDetail that have not settled

vars == <<file, pc, req, pageNum, limitNum, allItems, filteredItems,
          readCalls, res>>

\* State of the server that takes several requests at once
apiVars == <<calls, workers, clock, creates, acked>>

\* State of the server that takes one request at a time, the file excepted
seqVars == <<pc, req, pageNum, limitNum, allItems, filteredItems, readCalls,
             res>>

\* State of the React client
uiVars == <<provider, view, fetchCalls, issued, latest>>

detailVars == <<detail, itemFetches>>

clientVars == <<uiVars, detailVars>>

serverVars == <<file, seqVars, apiVars>>

allVars == <<file, seqVars, apiVars, clientVars>>

NoReq == [route |-> "none", page |-> Undefined, limit |-> Undefined,
          q |-> Undefined, id |-> Undefined]

NoRes == [status |-> 0, message |-> "", body |-> <<>>]

\* Requests the server may have in flight at once
Calls == {1, 2}

\* One worker thread can exist per request in flight
WorkerIds == Calls

NoPayload == [name |-> Undefined, price |-> NoPrice, description |-> Undefined,
              id |-> Undefined]

NoStats == [total |-> 0, averagePrice |-> NotANumber]

\* A request slot with no request in it
IdleCall ==
  [route  |-> "none",   \* which handler runs
   pc     |-> "idle",   \* where it stands
   query  |-> NoReq,    \* req.query / req.params
   body   |-> NoPayload,\* req.body
   data   |-> <<>>,     \* what readData() returned
   item   |-> <<>>,     \* POST: the item as written, id included
   res    |-> NoRes,    \* the response sent last
   sent   |-> 0,        \* responses sent (res.json and next(err))
   worker |-> 0,        \* GET /stats: the worker created
   reads  |-> 0,        \* calls of fs.promises.readFile
   writes |-> 0,        \* calls of fs.promises.writeFile
   alone  |-> TRUE,     \* no other request has run since this one came in
   before |-> [state |-> "none", items |-> <<>>]]
                        \* POST: the data file when the request came in

\* No worker thread
FreeWorker ==
  [state    |-> "free",  \* free, running, exited
   inbox    |-> <<>>,    \* messages posted to the worker, not yet handled
   received |-> 0,       \* messages posted to the worker so far
   events   |-> <<>>]    \* events the worker has emitted, not yet handled

\* null
Null == [null |-> TRUE]

\* useState initial value of paginationInfo, also set after a failed fetch
InitialPagination ==
  [currentPage     |-> 1,
   itemsPerPage    |-> 2,
   totalItems      |-> 0,
   totalPages      |-> 0,
   hasPreviousPage |-> FALSE,
   hasNextPage     |-> FALSE]

\* DataProvider as first rendered
InitialProvider ==
  [items          |-> <<>>,
   loading        |-> FALSE,
   error          |-> Null,
   paginationInfo |-> InitialPagination]

\* Items when it is not on the page
NoView ==
  [mounted              |-> FALSE,
   currentPage          |-> 1,
   itemsPerPage         |-> 2,
   searchQuery          |-> <<>>,
   debouncedSearchQuery |-> <<>>,
   handler              |-> FALSE]  \* the debounce timer is armed

\* What a fetchItems call that has not settled has produced
Pending == [settled |-> FALSE, items |-> <<>>,
            paginationInfo |-> InitialPagination, error |-> Null]

\* ItemDetail when it is not on the page
NoDetail ==
  [mounted  |-> FALSE,
   id       |-> Undefined,  \* useParams().id
   item     |-> Null,
   loading  |-> FALSE,
   handlers |-> {},         \* ids whose 500 ms timer is armed
   cleared  |-> {}]         \* ids whose timer was cleared while armed

ClientIdle ==
  /\ provider = InitialProvider
  /\ view = NoView
  /\ fetchCalls = <<>>
  /\ issued = 0
  /\ latest = Pending
  /\ detail = NoDetail
  /\ itemFetches = <<>>

SeqIdle ==
  /\ pc = "idle"
  /\ req = NoReq
  /\ pageNum = 0
  /\ limitNum = 0
  /\ allItems = <<>>
  /\ filteredItems = <<>>
  /\ readCalls = 0
  /\ res = NoRes

ApiIdle ==
  /\ calls = [c \in Calls |-> IdleCall]
  /\ workers = [w \in WorkerIds |-> FreeWorker]
  /\ clock = StartTime
  /\ creates = 0
  /\ acked = {}

Init ==
  /\ file \in InitialFiles
  /\ pc = "idle"
  /\ req = NoReq
  /\ pageNum = 0
  /\ limitNum = 0
  /\ allItems = <<>>
  /\ filteredItems = <<>>
  /\ readCalls = 0
  /\ res = NoRes
  /\ ApiIdle
  /\ ClientIdle

\* Variant: readData() awaited at the top of the handler, before page and
\* limit are looked at
GetItemsReadFirst(rawPage, rawLimit, q) ==
  /\ pc = "idle"
  /\ req' = [route |-> "getItems", page |-> rawPage, limit |-> rawLimit,
             q |-> q, id |-> Undefined]
  /\ LET p == ParseParam(rawPage, DefaultPage)
         l == ParseParam(rawLimit, DefaultLimit)
     IN  IF p.threw \/ l.threw
           THEN /\ res' = ErrorMiddleware(InvalidPageOrLimit)
                /\ pc' = "done"
                /\ readCalls' = 1
                /\ UNCHANGED <<pageNum, limitNum>>
           ELSE /\ pageNum' = p.num
                /\ limitNum' = l.num
                /\ readCalls' = 1
                /\ pc' = "getItems_readData"
                /\ res' = NoRes
  /\ UNCHANGED <<file, allItems, filteredItems>>
  /\ UNCHANGED <<apiVars, clientVars>>

\* router.get("/") from the request up to `await readData()`: page and limit
\* are validated; an invalid one throws into catch -> next(err) and the
\* request is answered without touching the file.
GetItems(rawPage, rawLimit, q) ==
  /\ pc = "idle"
  /\ req' = [route |-> "getItems", page |-> rawPage, limit |-> rawLimit,
             q |-> q, id |-> Undefined]
  /\ LET p == ParseParam(rawPage, DefaultPage)
         l == ParseParam(rawLimit, DefaultLimit)
     IN  IF p.threw \/ l.threw
           THEN /\ res' = ErrorMiddleware(InvalidPageOrLimit)
                /\ pc' = "done"
                /\ readCalls' = 0
                /\ UNCHANGED <<pageNum, limitNum>>
           ELSE /\ pageNum' = p.num
                /\ limitNum' = l.num
                /\ readCalls' = 1
                /\ pc' = "getItems_readData"
                /\ res' = NoRes
  /\ UNCHANGED <<file, allItems, filteredItems>>
  /\ UNCHANGED <<apiVars, clientVars>>

\* router.get("/") after readData() settles: filter, paginate, res.json; a
\* rejection goes to catch -> next(err)
GetItemsContinue ==
  /\ pc = "getItems_readData"
  /\ LET r == ReadData(file)
     IN  IF r.threw
           THEN /\ res' = ErrorMiddleware(r.err)
                /\ UNCHANGED <<allItems, filteredItems>>
           ELSE /\ allItems' = r.value
                /\ filteredItems' = FilterItems(r.value, req.q)
                /\ res' = Json(200, Paginate(filteredItems', pageNum, limitNum))
  /\ pc' = "done"
  /\ UNCHANGED <<file, req, pageNum, limitNum, readCalls>>
  /\ UNCHANGED <<apiVars, clientVars>>

\* router.get("/:id") up to `await readData()`
GetItemById(rawId) ==
  /\ pc = "idle"
  /\ req' = [route |-> "getItemById", page |-> Undefined, limit |-> Undefined,
             q |-> Undefined, id |-> rawId]
  /\ readCalls' = 1
  /\ pc' = "getItemById_readData"
  /\ res' = NoRes
  /\ UNCHANGED <<file, pageNum, limitNum, allItems, filteredItems>>
  /\ UNCHANGED <<apiVars, clientVars>>

\* router.get("/:id") after readData() settles
GetItemByIdContinue ==
  /\ pc = "getItemById_readData"
  /\ LET r == ReadData(file)
     IN  IF r.threw
           THEN /\ res' = ErrorMiddleware(r.err)
                /\ UNCHANGED allItems
           ELSE /\ allItems' = r.value
                /\ LET f == FindById(r.value, ParseInt(req.id))
                   IN  res' = IF f.found THEN Json(200, f.item)
                                         ELSE ErrorMiddleware(ItemNotFound)
  /\ pc' = "done"
  /\ UNCHANGED <<file, req, pageNum, limitNum, filteredItems, readCalls>>
  /\ UNCHANGED <<apiVars, clientVars>>

\* The response has gone out; the handler's locals are dropped and the
\* server takes the next request.
Finish ==
  /\ pc = "done"
  /\ pc' = "idle"
  /\ req' = NoReq
  /\ pageNum' = 0
  /\ limitNum' = 0
  /\ allItems' = <<>>
  /\ filteredItems' = <<>>
  /\ readCalls' = 0
  /\ res' = NoRes
  /\ UNCHANGED file
  /\ UNCHANGED <<apiVars, clientVars>>

Next ==
  \/ \E rawPage \in RawNumbers, rawLimit \in RawNumbers, q \in RawQueries :
       GetItems(rawPage, rawLimit, q)
  \/ GetItemsContinue
  \/ \E rawId \in RawIds : GetItemById(rawId)
  \/ GetItemByIdContinue
  \/ Finish

Spec == Init /\ [][Next]_vars

----------------------------------------------------------------------------
\* The server with several requests in flight: every handler runs up to its
\* next await, and the handlers of different requests interleave there.

\* Record of the catalog with the given id
CatalogItem(n) == CHOOSE r \in Catalog : r.id = n

\* The data file at start-up
ApiFiles ==
  { [state |-> "ENOENT",    items |-> <<>>],
    [state |-> "EACCES",    items |-> <<>>],
    [state |-> "malformed", items |-> <<>>],
    [state |-> "object",    items |-> <<>>],
    [state |-> "ok", items |-> <<>>],
    [state |-> "ok", items |-> <<CatalogItem(1), CatalogItem(2), CatalogItem(3)>>] }

\* Query strings of GET /api/items
ApiQueries ==
  { [route |-> "getItems", page |-> Undefined, limit |-> Undefined,
     q |-> Undefined, id |-> Undefined],
    [route |-> "getItems", page |-> <<"2">>, limit |-> <<"2">>,
     q |-> <<"o">>, id |-> Undefined],
    [route |-> "getItems", page |-> Undefined, limit |-> <<"-", "1">>,
     q |-> Undefined, id |-> Undefined] }

\* Path segments of GET /api/items/:id
ApiIds == { <<"1">>, <<"9">> }

\* The handler of d is suspended at an await
Active(d) == calls[d].pc \notin {"idle", "done", "hung"}

\* The handler of c moves on; every other suspended handler has now been
\* interleaved with
Step(c, call) ==
  calls' = [d \in Calls |->
              IF d = c THEN call
              ELSE IF Active(d) THEN [calls[d] EXCEPT !.alone = FALSE]
              ELSE calls[d]]

\* A request arrives in the free slot c
Arrive(c, route) ==
  [IdleCall EXCEPT !.route = route,
                   !.alone = \A d \in Calls \ {c} : ~Active(d)]

\* next(err): the error middleware answers
NextErr(call, err) ==
  [call EXCEPT !.res = ErrorMiddleware(err), !.sent = @ + 1, !.pc = "done"]

\* res.json / res.status(code).json
Respond(call, code, body) ==
  [call EXCEPT !.res = Json(code, body), !.sent = @ + 1, !.pc = "done"]

\* Date.now() moves on
Tick ==
  /\ clock < StartTime + MaxTicks
  /\ clock' = clock + 1
  /\ UNCHANGED <<file, calls, workers, creates, acked>>
  /\ UNCHANGED <<seqVars, clientVars>>

\* router.get("/") up to `await readData()`
ApiGetItems(c, query) ==
  /\ calls[c].pc = "idle"
  /\ LET call == [Arrive(c, "getItems") EXCEPT !.query = query]
         p    == ParseParam(query.page, DefaultPage)
         l    == ParseParam(query.limit, DefaultLimit)
     IN  IF p.threw \/ l.threw
           THEN Step(c, NextErr(call, InvalidPageOrLimit))
           ELSE Step(c, [call EXCEPT !.pc = "getItems_readData", !.reads = 1])
  /\ UNCHANGED <<file, workers, clock, creates, acked>>
  /\ UNCHANGED <<seqVars, clientVars>>

\* router.get("/") after readData() settles
ApiGetItemsContinue(c) ==
  /\ calls[c].pc = "getItems_readData"
  /\ LET call == calls[c]
         r    == ReadData(file)
         p    == ParseParam(call.query.page, DefaultPage)
         l    == ParseParam(call.query.limit, DefaultLimit)
     IN  IF r.threw THEN Step(c, NextErr(call, r.err))
         ELSE IF ~IsArray(r) THEN Step(c, NextErr(call, RouteTypeError))
         ELSE Step(c, Respond([call EXCEPT !.data = r.value], 200,
                    Paginate(FilterItems(r.value, call.query.q), p.num, l.num)))
  /\ UNCHANGED <<file, workers, clock, creates, acked>>
  /\ UNCHANGED <<seqVars, clientVars>>

\* router.get("/:id") up to `await readData()`
ApiGetItemById(c, rawId) ==
  /\ calls[c].pc = "idle"
  /\ Step(c, [Arrive(c, "getItemById") EXCEPT
                !.query = [NoReq EXCEPT !.route = "getItemById", !.id = rawId],
                !.pc = "getItemById_readData", !.reads = 1])
  /\ UNCHANGED <<file, workers, clock, creates, acked>>
  /\ UNCHANGED <<seqVars, clientVars>>

\* router.get("/:id") after readData() settles
ApiGetItemByIdContinue(c) ==
  /\ calls[c].pc = "getItemById_readData"
  /\ LET call == calls[c]
         r    == ReadData(file)
         f    == FindById(r.value, ParseInt(call.query.id))
     IN  IF r.threw THEN Step(c, NextErr(call, r.err))
         ELSE IF ~IsArray(r) THEN Step(c, NextErr(call, RouteTypeError))
         ELSE IF f.found
           THEN Step(c, Respond([call EXCEPT !.data = r.value], 200, f.item))
           ELSE Step(c, NextErr([call EXCEPT !.data = r.value], ItemNotFound))
  /\ UNCHANGED <<file, workers, clock, creates, acked>>
  /\ UNCHANGED <<seqVars, clientVars>>

\* fs.promises.writeFile rejected (disk full, no permission)
WriteError == [status |-> 0, message |-> "ENOSPC: no space left on device"]

\* The file once fs.promises.writeFile has opened it with flag "w" and has
\* not written the text yet: empty, which JSON.parse rejects
Truncated == [state |-> "malformed", items |-> <<>>]

\* Variant: an id sent by the client is kept
AssignIdUnlessGiven(item, now) ==
  IF item.id = Undefined THEN [item EXCEPT !.id = now]
  ELSE [item EXCEPT !.id = ParseInt(item.id).val]

\* item.id = Date.now()
AssignId(item, now) == [item EXCEPT !.id = now]

\* Variant: data.unshift(item)
StringifyItemFirst(data, item) == <<JsonItem(item)>> \o data

\* data.push(item) and JSON.stringify(data, null, 2): the array the file
\* holds once written
StringifyPushed(data, item) == Append(data, JsonItem(item))

\* Variant: readData() awaited before the body is validated
PostItemReadFirst(c, payload) ==
  /\ calls[c].pc = "idle"
  /\ creates < MaxCreates
  /\ Step(c, [Arrive(c, "postItem") EXCEPT
                !.body = payload, !.before = file,
                !.pc = "postItem_readData", !.reads = 1])
  /\ creates' = creates + 1
  /\ UNCHANGED <<file, workers, clock, acked>>
  /\ UNCHANGED <<seqVars, clientVars>>

\* router.post("/") up to `await readData()`: the body is validated; an
\* invalid one throws into catch -> next(err)
PostItem(c, payload) ==
  /\ calls[c].pc = "idle"
  /\ LET v    == ValidateItem(payload)
         call == [Arrive(c, "postItem") EXCEPT !.body = payload,
                                               !.before = file]
     IN  IF v.threw
           THEN /\ Step(c, NextErr(call, v.err))
                /\ UNCHANGED creates
           ELSE /\ creates < MaxCreates
                /\ Step(c, [call EXCEPT !.pc = "postItem_readData", !.reads = 1])
                /\ creates' = creates + 1
  /\ UNCHANGED <<file, workers, clock, acked>>
  /\ UNCHANGED <<seqVars, clientVars>>

\* router.post("/") after readData() settles: the id is taken from the clock,
\* the item is pushed and writeData(data) is called
PostItemRead(c) ==
  /\ calls[c].pc = "postItem_readData"
  /\ LET call == calls[c]
         r    == ReadData(file)
     IN  IF r.threw THEN Step(c, NextErr(call, r.err))
         ELSE IF ~IsArray(r) THEN Step(c, NextErr(call, RouteTypeError))
         ELSE Step(c, [call EXCEPT !.data = r.value,
                                   !.item = AssignId(call.body, clock),
                                   !.writes = 1,
                                   !.pc = "postItem_writeFile"])
  /\ UNCHANGED <<file, workers, clock, creates, acked>>
  /\ UNCHANGED <<seqVars, clientVars>>

\* fs.promises.writeFile opens the file, which empties it
PostItemOpen(c) ==
  /\ calls[c].pc = "postItem_writeFile"
  /\ file' = Truncated
  /\ Step(c, [calls[c] EXCEPT !.pc = "postItem_writing"])
  /\ UNCHANGED <<workers, clock, creates, acked>>
  /\ UNCHANGED <<seqVars, clientVars>>

\* fs.promises.writeFile fails to open the file: writeData rejects
PostItemOpenFails(c) ==
  /\ calls[c].pc = "postItem_writeFile"
  /\ Step(c, NextErr(calls[c], WriteError))
  /\ UNCHANGED <<file, workers, clock, creates, acked>>
  /\ UNCHANGED <<seqVars, clientVars>>

\* fs.promises.writeFile fails after opening the file: writeData rejects and
\* the file stays as the failed write left it
PostItemWriteFails(c) ==
  /\ calls[c].pc = "postItem_writing"
  /\ Step(c, NextErr(calls[c], WriteError))
  /\ UNCHANGED <<file, workers, clock, creates, acked>>
  /\ UNCHANGED <<seqVars, clientVars>>

\* fs.promises.writeFile completes and the handler answers 201 with the item
PostItemWritten(c) ==
  /\ calls[c].pc = "postItem_writing"
  /\ LET call == calls[c]
     IN  /\ file' = [state |-> "ok",
                     items |-> StringifyPushed(call.data, call.item)]
         /\ Step(c, Respond(call, 201, JsonItem(call.item)))
         /\ acked' = acked \cup {JsonItem(call.item)}
  /\ UNCHANGED <<workers, clock, creates>>
  /\ UNCHANGED <<seqVars, clientVars>>

\* Events a worker emits to the thread that created it
MessageEvent(stats) ==
  [type |-> "message", stats |-> stats, err |-> [status |-> 0, message |-> ""],
   code |-> 0]

ErrorEvent(err) == [type |-> "error", stats |-> NoStats, err |-> err, code |-> 0]

ExitEvent(code) ==
  [type |-> "exit", stats |-> NoStats, err |-> [status |-> 0, message |-> ""],
   code |-> code]

\* Variant: one worker created when the module is loaded and used by every
\* request
SharedWorker(ws) == CHOOSE w \in WorkerIds : \A v \in WorkerIds : w <= v

\* new Worker(WORKER_PATH): a thread that did not exist before
NewWorker(ws) ==
  CHOOSE w \in WorkerIds :
    /\ ws[w].state = "free"
    /\ \A v \in WorkerIds : ws[v].state = "free" => w <= v

\* worker.postMessage(items) on a worker just created
PostMessage(wk, msg) ==
  [wk EXCEPT !.state = IF @ = "free" THEN "running" ELSE @,
             !.inbox = Append(@, msg),
             !.received = @ + 1]

\* Variant: the handlers never call worker.terminate()
TerminateNever(wk) == wk

\* worker.terminate(): a running thread is stopped and exits with code 1; a
\* thread that has exited already is left as it is
Terminate(wk) ==
  IF wk.state = "running"
    THEN [wk EXCEPT !.state = "exited", !.inbox = <<>>,
                    !.events = Append(@, ExitEvent(1))]
    ELSE wk

\* Variant: the exit handler passes a non-zero exit code to next()
ExitHandlerFails(call, code) ==
  IF code # 0
    THEN [call EXCEPT !.res = ErrorMiddleware(WorkerTypeError), !.sent = @ + 1]
    ELSE call

\* worker.on("exit"): a non-zero code is logged; nothing is sent
ExitHandler(call, code) == call

\* router.get("/") of stats.js up to `await readData(DATA_PATH)`
GetStats(c) ==
  /\ calls[c].pc = "idle"
  /\ Step(c, [Arrive(c, "getStats") EXCEPT !.pc = "getStats_readData",
                                           !.reads = 1])
  /\ UNCHANGED <<file, workers, clock, creates, acked>>
  /\ UNCHANGED <<seqVars, clientVars>>

\* stats.js after readData() settles: a worker is created, the items are
\* posted to it and the three listeners are attached
GetStatsRead(c) ==
  /\ calls[c].pc = "getStats_readData"
  /\ LET call == calls[c]
         r    == ReadData(file)
         w    == NewWorker(workers)
     IN  IF r.threw
           THEN /\ Step(c, NextErr(call, r.err))
                /\ UNCHANGED workers
           ELSE /\ workers' = [workers EXCEPT ![w] =
                     PostMessage(@, [array |-> IsArray(r), items |-> r.value])]
                /\ Step(c, [call EXCEPT !.data = r.value, !.worker = w,
                                        !.pc = "getStats_worker"])
  /\ UNCHANGED <<file, clock, creates, acked>>
  /\ UNCHANGED <<seqVars, clientVars>>

\* worker.js: parentPort.on("message") handles the items posted; a message
\* that is not an array makes the handler throw, which ends the thread
WorkerHandle(w) ==
  /\ workers[w].state = "running"
  /\ workers[w].inbox # <<>>
  /\ LET msg == Head(workers[w].inbox)
     IN  workers' = [workers EXCEPT ![w] =
           IF msg.array
             THEN [@ EXCEPT !.inbox = Tail(@),
                            !.events = Append(@, MessageEvent(ComputeStats(msg.items)))]
             ELSE [@ EXCEPT !.inbox = <<>>,
                            !.state = "exited",
                            !.events = @ \o <<ErrorEvent(WorkerTypeError), ExitEvent(1)>>]]
  /\ UNCHANGED <<file, calls, clock, creates, acked>>
  /\ UNCHANGED <<seqVars, clientVars>>

\* The worker thread stops on its own with a non-zero code and without an
\* error event
WorkerCrash(w) ==
  /\ workers[w].state = "running"
  /\ workers' = [workers EXCEPT ![w] =
       [@ EXCEPT !.state = "exited", !.inbox = <<>>,
                 !.events = Append(@, ExitEvent(1))]]
  /\ UNCHANGED <<file, calls, clock, creates, acked>>
  /\ UNCHANGED <<seqVars, clientVars>>

\* The next event of the worker of c is of the given type
NextEvent(c, type) ==
  /\ calls[c].pc = "getStats_worker"
  /\ workers[calls[c].worker].events # <<>>
  /\ Head(workers[calls[c].worker].events).type = type

\* worker.on("message"): res.json(stats), then worker.terminate()
OnMessage(c) ==
  /\ NextEvent(c, "message")
  /\ LET w  == calls[c].worker
         ev == Head(workers[w].events)
     IN  /\ Step(c, [calls[c] EXCEPT !.res = Json(200, ev.stats),
                                     !.sent = @ + 1])
         /\ workers' = [workers EXCEPT ![w] =
              Terminate([@ EXCEPT !.events = Tail(@)])]
  /\ UNCHANGED <<file, clock, creates, acked>>
  /\ UNCHANGED <<seqVars, clientVars>>

\* worker.on("error"): worker.terminate(), then next(err)
OnError(c) ==
  /\ NextEvent(c, "error")
  /\ LET w  == calls[c].worker
         ev == Head(workers[w].events)
     IN  /\ workers' = [workers EXCEPT ![w] =
              Terminate([@ EXCEPT !.events = Tail(@)])]
         /\ Step(c, [calls[c] EXCEPT !.res = ErrorMiddleware(ev.err),
                                     !.sent = @ + 1])
  /\ UNCHANGED <<file, clock, creates, acked>>
  /\ UNCHANGED <<seqVars, clientVars>>

\* worker.on("exit"): the thread is gone; the request is over, answered or
\* not
OnExit(c) ==
  /\ NextEvent(c, "exit")
  /\ LET w    == calls[c].worker
         ev   == Head(workers[w].events)
         call == ExitHandler(calls[c], ev.code)
     IN  /\ workers' = [workers EXCEPT ![w] = [@ EXCEPT !.events = Tail(@)]]
         /\ Step(c, [call EXCEPT !.pc = IF call.sent > 0 THEN "done"
                                                         ELSE "hung"])
  /\ UNCHANGED <<file, clock, creates, acked>>
  /\ UNCHANGED <<seqVars, clientVars>>

\* The response has gone out and the handler's locals are dropped, with the
\* worker object it held
ApiFinish(c) ==
  /\ calls[c].pc = "done"
  /\ calls' = [calls EXCEPT ![c] = IdleCall]
  /\ workers' = [w \in WorkerIds |->
                   IF w = calls[c].worker THEN FreeWorker ELSE workers[w]]
  /\ UNCHANGED <<file, clock, creates, acked>>
  /\ UNCHANGED <<seqVars, clientVars>>

ApiInit ==
  /\ file \in ApiFiles
  /\ SeqIdle
  /\ ApiIdle
  /\ ClientIdle

ApiNext ==
  \/ Tick
  \/ \E c \in Calls, query \in ApiQueries : ApiGetItems(c, query)
  \/ \E c \in Calls : ApiGetItemsContinue(c)
  \/ \E c \in Calls, rawId \in ApiIds : ApiGetItemById(c, rawId)
  \/ \E c \in Calls : ApiGetItemByIdContinue(c)
  \/ \E c \in Calls, payload \in Payloads : PostItem(c, payload)
  \/ \E c \in Calls : PostItemRead(c)
  \/ \E c \in Calls : PostItemOpen(c)
  \/ \E c \in Calls : PostItemOpenFails(c)
  \/ \E c \in Calls : PostItemWriteFails(c)
  \/ \E c \in Calls : PostItemWritten(c)
  \/ \E c \in Calls : GetStats(c)
  \/ \E c \in Calls : GetStatsRead(c)
  \/ \E w \in WorkerIds : WorkerHandle(w)
  \/ \E w \in WorkerIds : WorkerCrash(w)
  \/ \E c \in Calls : OnMessage(c)
  \/ \E c \in Calls : OnError(c)
  \/ \E c \in Calls : OnExit(c)
  \/ \E c \in Calls : ApiFinish(c)

ApiSpec == ApiInit /\ [][ApiNext]_allVars

\* The worker thread runs when it has a message, and the event loop delivers
\* every event a worker has emitted
ApiFairness ==
  /\ \A w \in WorkerIds : WF_allVars(WorkerHandle(w))
  /\ \A c \in Calls : WF_allVars(OnMessage(c))
  /\ \A c \in Calls : WF_allVars(OnError(c))
  /\ \A c \in Calls : WF_allVars(OnExit(c))

\* The aggregation route on its own: requests for /api/stats in flight together
\* over a store no request changes
StatsNext ==
  \/ \E c \in Calls : GetStats(c)
  \/ \E c \in Calls : GetStatsRead(c)
  \/ \E w \in WorkerIds : WorkerHandle(w)
  \/ \E w \in WorkerIds : WorkerCrash(w)
  \/ \E c \in Calls : OnMessage(c)
  \/ \E c \in Calls : OnError(c)
  \/ \E c \in Calls : OnExit(c)
  \/ \E c \in Calls : ApiFinish(c)

StatsFairSpec == ApiInit /\ [][StatsNext]_allVars /\ ApiFairness

-----------------------------------------------------------------------------
\* The React client: DataProvider and the Items list

\* Largest number of fetchItems calls in one run.
MaxCalls == 4

\* Texts the user may have in the search box
SearchTexts == { <<>>, <<"o">>, <<"x">> }

\* The decimal digit d as a character
DigitChar(d) == CHOOSE c \in Digits : DigitVal(c) = d

\* String(n) for a natural number
RECURSIVE DigitsOf(_)
DigitsOf(n) ==
  IF n < 10 THEN <<DigitChar(n)>>
  ELSE DigitsOf(n \div 10) \o <<DigitChar(n % 10)>>

\* String(n) for an integer, as URLSearchParams.append applies it
NumberToString(n) ==
  IF n < 0 THEN <<"-">> \o DigitsOf(0 - n) ELSE DigitsOf(n)

\* The query string fetchItems builds: a parameter is appended only when its
\* value is truthy, so 0 and "" are left out
QueryString(page, limit, q) ==
  [route |-> "getItems",
   page  |-> IF page # 0 THEN NumberToString(page) ELSE Undefined,
   limit |-> IF limit # 0 THEN NumberToString(limit) ELSE Undefined,
   q     |-> IF q # <<>> THEN q ELSE Undefined,
   id    |-> Undefined]

\* GET /api/items as a function of the data file and the query string
ServeItems(f, query) ==
  LET p == ParseParam(query.page, DefaultPage)
      l == ParseParam(query.limit, DefaultLimit)
      r == ReadData(f)
  IN  IF p.threw \/ l.threw THEN ErrorMiddleware(InvalidPageOrLimit)
      ELSE IF r.threw THEN ErrorMiddleware(r.err)
      ELSE IF ~IsArray(r) THEN ErrorMiddleware(RouteTypeError)
      ELSE Json(200, Paginate(FilterItems(r.value, query.q), p.num, l.num))

\* fetch() rejected: the server could not be reached
NetworkError == [status |-> 0, message |-> "Failed to fetch", body |-> <<>>]

\* response.ok
Ok(response) == response.status \in 200..299

\* What the callback of fetchItems produces from the outcome of fetch():
\* the try branch for an OK response, the catch branch otherwise
Produced(response) ==
  IF Ok(response)
    THEN [settled        |-> TRUE,
          items          |-> response.body.items,
          paginationInfo |->
            [currentPage     |-> response.body.currentPage,
             itemsPerPage    |-> response.body.itemsPerPage,
             totalItems      |-> response.body.totalItems,
             totalPages      |-> response.body.totalPages,
             hasPreviousPage |-> response.body.hasPreviousPage,
             hasNextPage     |-> response.body.hasNextPage],
          error          |-> Null]
    ELSE [settled        |-> TRUE,
          items          |-> <<>>,
          paginationInfo |-> InitialPagination,
          error          |-> [message |-> response.message]]

\* The state updates of the callback of fetchItems: setItems
\* and setPaginationInfo on success (error is left as it is), setError,
\* setItems([]) and the reset of paginationInfo on failure, setLoading(false)
\* in both cases
Settle(prov, response) ==
  IF Ok(response)
    THEN [prov EXCEPT !.items = Produced(response).items,
                      !.paginationInfo = Produced(response).paginationInfo,
                      !.loading = FALSE]
    ELSE [prov EXCEPT !.error = Produced(response).error,
                      !.items = <<>>,
                      !.paginationInfo = InitialPagination,
                      !.loading = FALSE]

\* fetchItems(page, limit, q) up to setTimeout: loading is set, error is
\* cleared and the request is put behind a 500 ms timer
FetchItems(page, limit, q) ==
  /\ issued < MaxCalls
  /\ provider' = [provider EXCEPT !.loading = TRUE, !.error = Null]
  /\ fetchCalls' = Append(fetchCalls,
       [n |-> issued + 1, page |-> page, limit |-> limit, q |-> q,
        stage |-> "timer"])
  /\ issued' = issued + 1
  /\ latest' = Pending

\* Items is rendered: currentPage starts from paginationInfo.currentPage, the
\* debounce effect arms its timer and the fetch effect calls fetchItems
ItemsMount ==
  /\ ~view.mounted
  /\ view' = [NoView EXCEPT !.mounted = TRUE,
                            !.currentPage = provider.paginationInfo.currentPage,
                            !.handler = TRUE]
  /\ FetchItems(provider.paginationInfo.currentPage, NoView.itemsPerPage,
                NoView.debouncedSearchQuery)
  /\ UNCHANGED <<serverVars, detailVars>>

\* Items leaves the page: the cleanup of the debounce effect clears the timer
ItemsUnmount ==
  /\ view.mounted
  /\ view' = NoView
  /\ UNCHANGED <<provider, fetchCalls, issued, latest>>
  /\ UNCHANGED <<serverVars, detailVars>>

\* Variant: the page is advanced whatever hasNextPage says
HandleNextPageUnguarded(page, info) == page + 1

\* handleNextPage: the new value of currentPage
HandleNextPage(page, info) ==
  IF info.hasNextPage THEN page + 1 ELSE page

\* handlePreviousPage: the new value of currentPage
HandlePreviousPage(page, info) ==
  IF info.hasPreviousPage THEN page - 1 ELSE page

\* currentPage is set to p: when it changes, Items renders again and the fetch
\* effect calls fetchItems with the debounced query
SetCurrentPage(p) ==
  IF p # view.currentPage
    THEN /\ view' = [view EXCEPT !.currentPage = p]
         /\ FetchItems(p, view.itemsPerPage, view.debouncedSearchQuery)
    ELSE UNCHANGED uiVars

\* A click on Next; the buttons are on the page when error is null
ClickNext ==
  /\ view.mounted
  /\ provider.error = Null
  /\ SetCurrentPage(HandleNextPage(view.currentPage, provider.paginationInfo))
  /\ UNCHANGED <<serverVars, detailVars>>

\* A click on Previous
ClickPrevious ==
  /\ view.mounted
  /\ provider.error = Null
  /\ SetCurrentPage(HandlePreviousPage(view.currentPage,
                                       provider.paginationInfo))
  /\ UNCHANGED <<serverVars, detailVars>>

\* handleSearchChange: the text of the search box changes to text. searchQuery
\* is set and currentPage is reset to 1; the debounce effect clears its timer
\* and arms a new one, and the fetch effect runs when currentPage has changed
HandleSearchChange(text) ==
  /\ view.mounted
  /\ provider.error = Null
  /\ text # view.searchQuery
  /\ IF view.currentPage # 1
       THEN /\ view' = [view EXCEPT !.searchQuery = text, !.currentPage = 1,
                                    !.handler = TRUE]
            /\ FetchItems(1, view.itemsPerPage, view.debouncedSearchQuery)
       ELSE /\ view' = [view EXCEPT !.searchQuery = text, !.handler = TRUE]
            /\ UNCHANGED <<provider, fetchCalls, issued, latest>>
  /\ UNCHANGED <<serverVars, detailVars>>

\* The debounce timer fires 500 ms after the last change of the text:
\* debouncedSearchQuery is set, and the fetch effect runs when it has changed
DebounceTimeout ==
  /\ view.mounted
  /\ view.handler
  /\ IF view.debouncedSearchQuery # view.searchQuery
       THEN /\ view' = [view EXCEPT !.handler = FALSE,
                                    !.debouncedSearchQuery = view.searchQuery]
            /\ FetchItems(view.currentPage, view.itemsPerPage,
                          view.searchQuery)
       ELSE /\ view' = [view EXCEPT !.handler = FALSE]
            /\ UNCHANGED <<provider, fetchCalls, issued, latest>>
  /\ UNCHANGED <<serverVars, detailVars>>

\* A click on Try Again in the Error component, shown in place of the list
\* while error is set
TryAgain ==
  /\ view.mounted
  /\ provider.error # Null
  /\ FetchItems(view.currentPage, view.itemsPerPage, view.searchQuery)
  /\ UNCHANGED view
  /\ UNCHANGED <<serverVars, detailVars>>

\* The call is behind its 500 ms timer
IsWaiting(call) == call.stage = "timer"

\* The 500 ms timer of fetchItems fires, oldest first: the request is sent
FetchTimeout(i) ==
  /\ i \in 1..Len(fetchCalls)
  /\ IsWaiting(fetchCalls[i])
  /\ \A j \in 1..(i - 1) : ~IsWaiting(fetchCalls[j])
  /\ fetchCalls' = [fetchCalls EXCEPT ![i].stage = "sent"]
  /\ UNCHANGED <<provider, view, issued, latest>>
  /\ UNCHANGED <<serverVars, detailVars>>

\* The sequence without its i-th element
Without(seq, i) == SubSeq(seq, 1, i - 1) \o SubSeq(seq, i + 1, Len(seq))

\* fetch() of call i settles, with the answer of the server or with a network
\* failure, and the rest of the callback runs
FetchSettle(i, network) ==
  /\ i \in 1..Len(fetchCalls)
  /\ fetchCalls[i].stage = "sent"
  /\ LET call     == fetchCalls[i]
         response == IF network THEN NetworkError
                     ELSE ServeItems(file,
                            QueryString(call.page, call.limit, call.q))
     IN  /\ provider' = Settle(provider, response)
         /\ latest' = IF call.n = issued THEN Produced(response) ELSE latest
  /\ fetchCalls' = Without(fetchCalls, i)
  /\ UNCHANGED <<view, issued>>
  /\ UNCHANGED <<serverVars, detailVars>>

\* Data files the client is served from
ItemsFiles ==
  { [state |-> "EACCES", items |-> <<>>],
    [state |-> "ok", items |-> <<CatalogItem(1), CatalogItem(2), CatalogItem(3)>>] }

ItemsInit ==
  /\ file \in ItemsFiles
  /\ SeqIdle
  /\ ApiIdle
  /\ ClientIdle

ItemsNext ==
  \/ ItemsMount
  \/ ItemsUnmount
  \/ ClickNext
  \/ ClickPrevious
  \/ \E text \in SearchTexts : HandleSearchChange(text)
  \/ DebounceTimeout
  \/ TryAgain
  \/ \E i \in 1..MaxCalls : FetchTimeout(i)
  \/ \E i \in 1..MaxCalls, network \in BOOLEAN : FetchSettle(i, network)

ItemsSpec == ItemsInit /\ [][ItemsNext]_allVars

-----------------------------------------------------------------------------
\* The React client: ItemDetail

\* Largest number of fetches of ItemDetail in flight at once.
MaxItemFetches == 2

\* Values of the :id segment of the route /items/:id
DetailIds == { <<"1">>, <<"9">> }

\* GET /api/items/:id as a function of the data file and the path segment
ServeItemById(f, rawId) ==
  LET r == ReadData(f)
      h == FindById(r.value, ParseInt(rawId))
  IN  IF r.threw THEN ErrorMiddleware(r.err)
      ELSE IF ~IsArray(r) THEN ErrorMiddleware(RouteTypeError)
      ELSE IF h.found THEN Json(200, h.item)
      ELSE ErrorMiddleware(ItemNotFound)

\* Variant: the cleanup leaves the timer armed
ClearTimeoutNever(handlers, id) == handlers

\* clearTimeout(handler) in the cleanup of the effect that ran for id
ClearTimeout(handlers, id) == handlers \ {id}

\* ItemDetail is rendered for id: the effect sets loading and arms the timer
DetailMount(id) ==
  /\ ~detail.mounted
  /\ detail' = [NoDetail EXCEPT !.mounted = TRUE, !.id = id, !.loading = TRUE,
                                !.handlers = detail.handlers \cup {id},
                                !.cleared = detail.cleared]
  /\ UNCHANGED itemFetches
  /\ UNCHANGED <<serverVars, uiVars>>

\* The route parameter changes while ItemDetail stays on the page: the cleanup
\* of the effect runs for the old id and the effect runs for the new one; item
\* is kept
DetailChangeId(id) ==
  /\ detail.mounted
  /\ id # detail.id
  /\ detail' = [detail EXCEPT
       !.id = id,
       !.loading = TRUE,
       !.handlers = ClearTimeout(detail.handlers, detail.id) \cup {id},
       !.cleared = @ \cup (detail.handlers \cap {detail.id})]
  /\ UNCHANGED itemFetches
  /\ UNCHANGED <<serverVars, uiVars>>

\* ItemDetail leaves the page: the cleanup runs, and what its fetches in
\* flight set later is set on a component that is gone
DetailUnmount ==
  /\ detail.mounted
  /\ detail' = [NoDetail EXCEPT
       !.handlers = ClearTimeout(detail.handlers, detail.id),
       !.cleared = detail.cleared \cup (detail.handlers \cap {detail.id})]
  /\ itemFetches' = [i \in 1..Len(itemFetches) |->
                       [itemFetches[i] EXCEPT !.live = FALSE]]
  /\ UNCHANGED <<serverVars, uiVars>>

\* The 500 ms timer armed for id fires: fetchItem() sends the request
DetailTimeout(id) ==
  /\ id \in detail.handlers
  /\ Len(itemFetches) < MaxItemFetches
  /\ detail' = [detail EXCEPT !.handlers = @ \ {id}]
  /\ itemFetches' = Append(itemFetches, [id |-> id, live |-> detail.mounted])
  /\ UNCHANGED <<serverVars, uiVars>>

\* fetch() of fetchItem settles: setItem(data) for an OK response, nothing but
\* a log otherwise, and setLoading(false) in both cases
DetailSettle(i, network) ==
  /\ i \in 1..Len(itemFetches)
  /\ LET response == IF network THEN NetworkError
                     ELSE ServeItemById(file, itemFetches[i].id)
     IN  detail' =
           IF ~itemFetches[i].live THEN detail
           ELSE IF Ok(response)
             THEN [detail EXCEPT !.item = response.body, !.loading = FALSE]
             ELSE [detail EXCEPT !.loading = FALSE]
  /\ itemFetches' = Without(itemFetches, i)
  /\ UNCHANGED <<serverVars, uiVars>>

DetailInit ==
  /\ file \in ItemsFiles
  /\ SeqIdle
  /\ ApiIdle
  /\ ClientIdle

DetailNext ==
  \/ \E id \in DetailIds : DetailMount(id)
  \/ \E id \in DetailIds : DetailChangeId(id)
  \/ DetailUnmount
  \/ \E id \in DetailIds : DetailTimeout(id)
  \/ \E i \in 1..MaxItemFetches, network \in BOOLEAN : DetailSettle(i, network)

DetailSpec == DetailInit /\ [][DetailNext]_allVars

----------------------------------------------------------------------------
\* Vocabulary of the properties

\* s is a base-10 numeral: one or more decimal digits and nothing else
IsDecimal(s) == s # <<>> /\ \A i \in 1..Len(s) : s[i] \in Digits

\* s is the base-10 representation of an integer >= 1
IsPositiveDecimal(s) == IsDecimal(s) /\ MathInt(s) >= 1

\* a query parameter that was supplied and is not such a representation
SuppliedInvalid(raw) == raw # Undefined /\ ~IsPositiveDecimal(raw)

QueryAnswered == pc = "done" /\ req.route = "getItems"

QueryOk == QueryAnswered /\ res.status = 200

\* name contains q as a substring, letter case ignored
NameContains(item, q) ==
  LET n == ToLowerCase(item.name)
      w == ToLowerCase(q)
  IN  \E i \in 1..(Len(n) + 1) : \E j \in (i - 1)..Len(n) : SubSeq(n, i, j) = w

\* positions of the loaded array that the search keeps
KeptPositions(items, q) ==
  IF q = Undefined \/ q = <<>> THEN DOMAIN items
  ELSE { i \in DOMAIN items : NameContains(items[i], q) }

\* n = ceil(a / b)
IsCeilOf(n, a, b) == n * b >= a /\ (n - 1) * b < a

----------------------------------------------------------------------------
\* C1: every GET /items whose page or limit is supplied with a value that is
\* not the base-10 representation of an integer >= 1 is answered 400 with the
\* fixed message, the same for page and for limit.
C1_InvalidParamRejected ==
  (QueryAnswered /\ (SuppliedInvalid(req.page) \/ SuppliedInvalid(req.limit)))
    => (res.status = 400 /\ res.message = InvalidPageOrLimit.message)

C4_OutOfBoundsPage ==
  (QueryOk /\ req.page # Undefined
           /\ res.body.totalPages > 0
           /\ ParseInt(req.page).val > res.body.totalPages) =>
    /\ res.body.items = <<>>
    /\ res.body.currentPage = ParseInt(req.page).val
    /\ res.body.totalItems = Cardinality(KeptPositions(allItems, req.q))
    /\ IsCeilOf(res.body.totalPages, res.body.totalItems, res.body.itemsPerPage)

C4_Witness ==
  /\ QueryOk
  /\ req.page = <<"4">>
  /\ req.limit = <<"2">>
  /\ res.body.totalItems = 3
  /\ res.body.totalPages = 2
  /\ res.body.currentPage = 4
  /\ res.body.items = <<>>

\* C5: a valid query with 1 <= page <= totalPages answers exactly the
\* contiguous slice filtered[(page-1)*limit .. (page-1)*limit+limit) in store
\* order, of length min(limit, totalItems - (page-1)*limit); and every 200
\* answer has items.length <= itemsPerPage.
C5_PageWindow ==
  QueryOk =>
    /\ Len(res.body.items) <= res.body.itemsPerPage
    /\ (pageNum >= 1 /\ pageNum <= res.body.totalPages) =>
          LET start == (pageNum - 1) * limitNum
          IN  /\ Len(res.body.items) = Min(limitNum, Len(filteredItems) - start)
              /\ \A k \in 1..Len(res.body.items) :
                    res.body.items[k] = filteredItems[start + k]

C5_Witness ==
  /\ QueryOk
  /\ req.page = <<"2">>
  /\ req.limit = <<"2">>
  /\ Len(filteredItems) = 3
  /\ res.body.items = <<filteredItems[3]>>

\* C6: in every 200 answer totalItems is the size of the filtered set and
\* totalPages = ceil(totalItems / itemsPerPage) when totalItems > 0, else 0.
C6_Totals ==
  QueryOk =>
    /\ res.body.totalItems = Cardinality(KeptPositions(allItems, req.q))
    /\ IF res.body.totalItems > 0
         THEN IsCeilOf(res.body.totalPages, res.body.totalItems,
                       res.body.itemsPerPage)
         ELSE res.body.totalPages = 0

C6_Witness ==
  /\ QueryOk
  /\ res.body.totalItems = 3
  /\ res.body.itemsPerPage = 2
  /\ res.body.totalPages = 2

\* C7: in every 200 answer hasPreviousPage = (currentPage > 1) and
\* hasNextPage = (currentPage < totalPages), from the reported currentPage; an
\* out-of-bounds page with totalPages > 0 therefore reports hasNextPage =
\* false and hasPreviousPage = true.
C7_Flags ==
  QueryOk =>
    /\ res.body.hasPreviousPage = (res.body.currentPage > 1)
    /\ res.body.hasNextPage = (res.body.currentPage < res.body.totalPages)
    /\ (res.body.totalPages > 0 /\ pageNum > res.body.totalPages) =>
          (~res.body.hasNextPage /\ res.body.hasPreviousPage)

C7_Witness ==
  /\ QueryOk
  /\ res.body.totalPages = 3
  /\ res.body.currentPage = 3
  /\ res.body.hasPreviousPage
  /\ ~res.body.hasNextPage

\* C8: with q non-empty the filtered set is exactly the records whose name
\* contains q case-insensitively, in store order, no other field consulted,
\* and totalItems / totalPages are those of the filtered set; with q absent
\* or empty the filtered set is the full set.
C8_Filter ==
  QueryOk =>
    LET kept == KeptPositions(allItems, req.q)
    IN  /\ Len(filteredItems) = Cardinality(kept)
        /\ \A i \in kept :
              filteredItems[Cardinality({j \in kept : j <= i})] = allItems[i]
        /\ res.body.totalItems = Cardinality(kept)
        /\ res.body.totalPages =
              IF kept = {} THEN 0
              ELSE CHOOSE n \in 1..Cardinality(kept) :
                     IsCeilOf(n, Cardinality(kept), res.body.itemsPerPage)
        /\ (req.q = Undefined \/ req.q = <<>>) => filteredItems = allItems

C8_Witness ==
  /\ QueryOk
  /\ req.q = <<"M", "O">>
  /\ Len(allItems) = 3
  /\ \E i \in 1..3 : allItems[i].description = <<"m", "o">>
  /\ Len(filteredItems) = 2
  /\ filteredItems[1].name = <<"m", "O", "m">>
  /\ filteredItems[2].name = <<"M", "o">>
  /\ res.body.totalItems = 2

IdDenotes(raw, n) == IsDecimal(raw) /\ MathInt(raw) = n

\* C10: getById answers 200 with the stored record whose id equals the
\* requested id exactly when such a record exists, and 404 "Item not found"
\* otherwise: id not numeric, no record with that id, store empty or missing.
C10_GetById ==
  (pc = "done" /\ req.route = "getItemById"
               /\ file.state \in {"ok", "ENOENT"}) =>
    IF \E i \in DOMAIN allItems : IdDenotes(req.id, allItems[i].id)
      THEN /\ res.status = 200
           /\ IdDenotes(req.id, res.body.id)
           /\ \E i \in DOMAIN allItems : res.body = allItems[i]
      ELSE /\ res.status = 404
           /\ res.message = "Item not found"

----------------------------------------------------------------------------
\* Properties of the server with several requests in flight

\* v is a string with a character that is not white space
IsNonBlankString(v) ==
  /\ v # Undefined
  /\ v # NonString
  /\ \E i \in 1..Len(v) : v[i] \notin WhiteSpace

\* p is a finite number > 0
IsFinitePositive(p) == p.kind = "number" /\ p.val > 0

\* The 400 message for the first field of the body that is not acceptable
FieldMessage(body) ==
  IF ~IsNonBlankString(body.name) THEN NameRequired.message
  ELSE IF ~IsFinitePositive(body.price) THEN PriceRequired.message
  ELSE CategoryRequired.message

Created(c) == calls[c].route = "postItem" /\ calls[c].pc = "done"

\* C11: create succeeds only if name is a non-empty (trimmed) string, price a
\* finite number > 0 and description a non-empty (trimmed) string; otherwise
\* it fails with 400 and the message of the failing field, and the store is
\* neither loaded nor saved.
C11_CreateValidation ==
  \A c \in Calls :
    Created(c) =>
      LET body == calls[c].body
      IN  IF /\ IsNonBlankString(body.name)
             /\ IsFinitePositive(body.price)
             /\ IsNonBlankString(body.description)
            THEN calls[c].res.status # 400
            ELSE /\ calls[c].res.status = 400
                 /\ calls[c].res.message = FieldMessage(body)
                 /\ calls[c].reads = 0
                 /\ calls[c].writes = 0

\* C12: after any sequence of successful creates, also at the same instant
\* or concurrently, the ids of the records in the store are pairwise distinct.
C12_DistinctIds ==
  file.state = "ok" =>
    \A i, j \in DOMAIN file.items :
      i # j => file.items[i].id # file.items[j].id

\* The records of the data file f, a missing file holding none
StoredIn(f) == IF f.state = "ok" THEN f.items ELSE <<>>

\* C13: a successful create that runs without interleaving leaves the store
\* equal to the sequence stored before with exactly one record appended; the
\* id of that record is the server's, also when the body carries an id, and
\* the 201 response is that record.
C13_CreateAppends ==
  [][\A c \in Calls :
       ( /\ calls[c].pc = "postItem_writing"
         /\ calls'[c].pc = "done"
         /\ calls'[c].res.status = 201
         /\ calls'[c].alone )
       => /\ file'.state = "ok"
          /\ file'.items = Append(StoredIn(calls[c].before), calls'[c].res.body)
          /\ calls'[c].res.body.id \in StartTime..clock
          /\ calls'[c].res.body.name = calls[c].body.name
          /\ calls'[c].res.body.description = calls[c].body.description
          /\ calls[c].body.price.kind = "number" =>
               calls'[c].res.body.price = calls[c].body.price.val
    ]_allVars

C13_Witness ==
  \E c \in Calls :
    /\ Created(c)
    /\ calls[c].res.status = 201
    /\ calls[c].alone
    /\ calls[c].body.id = <<"1">>
    /\ Len(calls[c].before.items) = 3
    /\ file.state = "ok"
    /\ Len(file.items) = 4
    /\ file.items[4] = calls[c].res.body
    /\ SubSeq(file.items, 1, 3) = calls[c].before.items

\* C14: once a record has been persisted by a create that answered 201, it
\* stays in the store, unchanged, in every later state, under every
\* interleaving of requests.
C14_AppendOnly ==
  file.state = "ok" =>
    \A r \in acked : \E i \in DOMAIN file.items : file.items[i] = r

\* Sum of the prices, from the left
RECURSIVE PriceTotal(_)
PriceTotal(items) ==
  IF items = <<>> THEN 0 ELSE Head(items).price + PriceTotal(Tail(items))

\* stats are the count and the mean price of items
IsStatsOf(stats, items) ==
  /\ stats.total = Len(items)
  /\ IF Len(items) > 0
       THEN /\ stats.averagePrice.den > 0
            /\ stats.averagePrice.num * Len(items)
                 = PriceTotal(items) * stats.averagePrice.den
       ELSE stats.averagePrice = Whole(0)

\* C15: the worker answers a record set with total = number of records and
\* averagePrice = (sum of price) / total when total > 0, and 0 for the empty
\* set; prices 1200, 25, 50 give total 3 and averagePrice 425.
C15_ComputeStats ==
  [][\A w \in WorkerIds :
       ( /\ workers[w].state = "running"
         /\ workers[w].inbox # <<>>
         /\ Head(workers[w].inbox).array
         /\ workers'[w].state = "running"
         /\ workers'[w].inbox # workers[w].inbox )
       => /\ workers'[w].events # <<>>
          /\ LET ev == workers'[w].events[Len(workers'[w].events)]
             IN  /\ ev.type = "message"
                 /\ IsStatsOf(ev.stats, Head(workers[w].inbox).items)
    ]_allVars

C15_Witness ==
  \E w \in WorkerIds :
    /\ workers[w].events # <<>>
    /\ Head(workers[w].events).type = "message"
    /\ Head(workers[w].events).stats = [total |-> 3, averagePrice |-> Whole(425)]
    /\ \E c \in Calls :
         /\ calls[c].worker = w
         /\ calls[c].data = <<CatalogItem(1), CatalogItem(2), CatalogItem(3)>>

\* C16: every worker created for an aggregation request is eventually torn
\* down, whether it delivered a result, raised an error or stopped on its
\* own; no worker stays alive once the requests are over.
C16_WorkerTornDown ==
  /\ \A w \in WorkerIds :
       (workers[w].state = "running") ~> (workers[w].state # "running")
  /\ [](\A c \in Calls :
          (calls[c].worker # 0 /\ calls[c].pc \in {"done", "hung"})
            => workers[calls[c].worker].state = "exited")

C16_Witness ==
  \E c \in Calls :
    /\ calls[c].route = "getStats"
    /\ calls[c].pc = "getStats_worker"
    /\ calls[c].res.status = 200
    /\ workers[calls[c].worker].state = "exited"
    /\ workers[calls[c].worker].events = <<ExitEvent(1)>>

\* C17: an aggregation request is answered at most once: the first result
\* or failure wins, and a later event of the worker (a non-zero exit after a
\* result or an error) sends nothing more.
C17_AtMostOneResponse ==
  \A c \in Calls : calls[c].sent <= 1

C17_Witness ==
  \E c \in Calls :
    /\ calls[c].route = "getStats"
    /\ calls[c].pc = "done"
    /\ calls[c].worker # 0
    /\ calls[c].sent = 1
    /\ calls[c].res.status = 500
    /\ calls[c].res.message = WorkerTypeError.message

\* C18: aggregation requests in flight together are independent: each has a
\* worker of its own, a worker is posted the data of one request only, and
\* each answer is the statistics of the set that request loaded.
C18_IndependentWorkers ==
  /\ \A w \in WorkerIds : workers[w].received <= 1
  /\ \A c, d \in Calls :
       (c # d /\ calls[c].worker # 0 /\ calls[d].worker # 0)
         => calls[c].worker # calls[d].worker
  /\ \A c \in Calls :
       (calls[c].route = "getStats" /\ calls[c].res.status = 200)
         => IsStatsOf(calls[c].res.body, calls[c].data)

C18_Witness ==
  \E c, d \in Calls :
    /\ c # d
    /\ calls[c].route = "getStats" /\ calls[c].res.status = 200
    /\ calls[d].route = "getStats" /\ calls[d].res.status = 200
    /\ ~calls[c].alone /\ ~calls[d].alone
    /\ calls[c].res.body.total = 3
    /\ calls[d].res.body.total = 4

ReadSettles(c) ==
  /\ calls[c].pc \in {"getItems_readData", "getItemById_readData",
                      "postItem_readData", "getStats_readData"}
  /\ calls'[c].pc # calls[c].pc

\* The handler of c has its write of the store rejected in this step
WriteRejected(c) == PostItemOpenFails(c) \/ PostItemWriteFails(c)

\* c is answered 500 with a message, once
Failed(call) ==
  /\ call.pc = "done"
  /\ call.sent = 1
  /\ call.res.status = 500
  /\ call.res.message # ""

\* C20: a storage failure other than a missing store (failed read, malformed
\* data, failed save) in query, getById, create or stats fails that request
\* with 500 and a message; no success is answered, and a create whose save
\* fails does not answer 201.
C20_StorageFailure ==
  /\ [][\A c \in Calls :
          /\ (ReadSettles(c) /\ file.state \in {"EACCES", "malformed"})
               => (Failed(calls'[c]) /\ file' = file /\ calls'[c].writes = 0)
          /\ (ReadSettles(c) /\ file.state = "object"
                /\ calls[c].route # "getStats")
               => (Failed(calls'[c]) /\ file' = file /\ calls'[c].writes = 0)
          /\ WriteRejected(c) => Failed(calls'[c])
          /\ (calls[c].route = "postItem" /\ calls[c].res.status # 201
                /\ calls'[c].res.status = 201)
               => /\ file'.state = "ok"
                  /\ file'.items # <<>>
                  /\ file'.items[Len(file'.items)] = calls'[c].res.body
      ]_allVars
  /\ [](file.state = "object" =>
          \A c \in Calls :
            (calls[c].route = "getStats" /\ calls[c].sent > 0)
              => (calls[c].sent = 1 /\ calls[c].res.status = 500
                    /\ calls[c].res.message # ""))

C20_Witness ==
  \E c, d \in Calls :
    /\ Created(c)
    /\ calls[c].writes = 1
    /\ Failed(calls[c])
    /\ calls[d].route = "getItems"
    /\ calls[d].reads = 1
    /\ Failed(calls[d])
    /\ file = Truncated

\* A create has opened the data file for writing and has not finished
Writing(d) == calls[d].pc = "postItem_writing"

\* What a read of the file returns now is the whole array items
ReadsWhole(items) ==
  /\ ~ReadData(file).threw
  /\ IsArray(ReadData(file))
  /\ ReadData(file).value = items

\* C21: a query, getById or stats whose read of the store falls inside the
\* write of a concurrent create reads either the whole array stored before
\* that write or the whole array stored after it, never a partly written
\* file.
C21_ReaderSeesWholeStore ==
  [][\A c \in Calls :
       (/\ ReadSettles(c)
        /\ calls[c].route \in {"getItems", "getItemById", "getStats"}
        /\ \E d \in Calls : Writing(d))
         => \E d \in Calls :
              /\ Writing(d)
              /\ \/ ReadsWhole(calls[d].data)
                 \/ ReadsWhole(StringifyPushed(calls[d].data, calls[d].item))
    ]_allVars

\* C27: every request for the statistics is eventually answered, with 200
\* or with 500, whatever happens to the load and to the worker.
C27_StatsAnswered ==
  \A c \in Calls :
    (calls[c].route = "getStats" /\ calls[c].pc # "idle")
      ~> (calls[c].sent > 0)

\* The items of pages 1 .. n of the filtered sequence, in order
RECURSIVE PagesUpTo(_, _, _)
PagesUpTo(filtered, n, limit) ==
  IF n = 0 THEN <<>>
  ELSE PagesUpTo(filtered, n - 1, limit) \o Paginate(filtered, n, limit).items

\* C28: for a store, q and limit, the pages 1 .. totalPages put one after the
\* other are the filtered sequence itself, and every page before the last
\* holds exactly limit items.
C28_PagesPartition ==
  QueryOk =>
    /\ PagesUpTo(filteredItems, res.body.totalPages, limitNum) = filteredItems
    /\ \A p \in 1..(res.body.totalPages - 1) :
         Len(Paginate(filteredItems, p, limitNum).items) = limitNum

C28_Witness ==
  /\ QueryOk
  /\ res.body.totalPages = 2
  /\ Len(filteredItems) = 3
  /\ limitNum = 2
  /\ Len(Paginate(filteredItems, 2, limitNum).items) = 1

-----------------------------------------------------------------------------
\* Properties of the client

\* The pagination fields of the body of a 200 answer
PaginationOf(body) ==
  [currentPage     |-> body.currentPage,
   itemsPerPage    |-> body.itemsPerPage,
   totalItems      |-> body.totalItems,
   totalPages      |-> body.totalPages,
   hasPreviousPage |-> body.hasPreviousPage,
   hasNextPage     |-> body.hasNextPage]

\* The outcome of fetch() for the call at position i of fetchCalls
OutcomeOf(i, network) ==
  IF network THEN NetworkError
  ELSE ServeItems(file, QueryString(fetchCalls[i].page, fetchCalls[i].limit,
                                    fetchCalls[i].q))

\* C22: when a fetchItems call settles, a successful response leaves items
\* and paginationInfo equal to the response's and error null; a non-OK
\* response or a network failure leaves error set, items empty and
\* paginationInfo reset; loading is false in both cases.
C22_FetchSettles ==
  [][\A i \in 1..MaxCalls, network \in BOOLEAN :
       FetchSettle(i, network) =>
         /\ ~provider'.loading
         /\ IF OutcomeOf(i, network).status = 200
              THEN /\ provider'.items = OutcomeOf(i, network).body.items
                   /\ provider'.paginationInfo =
                        PaginationOf(OutcomeOf(i, network).body)
                   /\ provider'.error = Null
              ELSE /\ provider'.error # Null
                   /\ provider'.items = <<>>
                   /\ provider'.paginationInfo = InitialPagination
    ]_allVars

\* fetchItems is called once in this step, for page p with the limit and the
\* query of the list
Requests(p) ==
  /\ issued' = issued + 1
  /\ Len(fetchCalls') = Len(fetchCalls) + 1
  /\ fetchCalls'[Len(fetchCalls')].page = p
  /\ fetchCalls'[Len(fetchCalls')].limit = view.itemsPerPage
  /\ fetchCalls'[Len(fetchCalls')].q = view.debouncedSearchQuery

\* C23: a click on Next asks for page currentPage + 1 and a click on
\* Previous for page currentPage - 1, with the same limit and query, when the
\* flag reported last (hasNextPage / hasPreviousPage) is true; when it is
\* false the click changes nothing.
C23_NextPrevious ==
  [][/\ ClickNext =>
          IF provider.paginationInfo.hasNextPage
            THEN Requests(view.currentPage + 1)
                   /\ view'.currentPage = view.currentPage + 1
            ELSE UNCHANGED allVars
     /\ ClickPrevious =>
          IF provider.paginationInfo.hasPreviousPage
            THEN Requests(view.currentPage - 1)
                   /\ view'.currentPage = view.currentPage - 1
            ELSE UNCHANGED allVars
    ]_allVars

C23_Witness ==
  /\ view.mounted
  /\ issued = 2
  /\ provider.paginationInfo.currentPage = 1
  /\ provider.paginationInfo.hasNextPage
  /\ view.currentPage = 2
  /\ fetchCalls # <<>>
  /\ fetchCalls[Len(fetchCalls)].page = 2
  /\ fetchCalls[Len(fetchCalls)].stage = "timer"

\* C24: a change of the search text triggers no request; the request comes
\* when the debounce timer fires after the last change, and it is one
\* request, for the text then in the box and page 1.
C24_Debounce ==
  [][/\ \A text \in SearchTexts :
          HandleSearchChange(text) => issued' = issued
     /\ (DebounceTimeout /\ view.searchQuery # view.debouncedSearchQuery) =>
          /\ issued' = issued + 1
          /\ fetchCalls'[Len(fetchCalls')].q = view.searchQuery
          /\ fetchCalls'[Len(fetchCalls')].page = 1
    ]_allVars

\* C29: when every fetchItems call has settled, the provider holds what the
\* call made last produced.
C29_LatestCallWins ==
  (fetchCalls = <<>> /\ issued >= 2) =>
    /\ provider.items = latest.items
    /\ provider.paginationInfo = latest.paginationInfo
    /\ provider.error = latest.error

\* C30: the page number held by Items and every page number passed to
\* fetchItems is at least 1.
C30_PagePositive ==
  /\ view.currentPage >= 1
  /\ \A i \in 1..Len(fetchCalls) : fetchCalls[i].page >= 1

\* ItemDetail shows "No item with ID <id> found." and no item
ShowsNoItem(d) == d.mounted /\ ~d.loading /\ d.item = Null

\* C25: when the fetch for the id on display fails (non-OK status or network
\* error) and nothing else is pending, loading has ended and ItemDetail shows
\* "No item with ID <id> found." with no item details.
C25_NoItemOnFailure ==
  [][\A i \in 1..MaxItemFetches, network \in BOOLEAN :
       (/\ DetailSettle(i, network)
        /\ itemFetches[i].live
        /\ itemFetches[i].id = detail.id
        /\ Len(itemFetches) = 1
        /\ detail.handlers = {}
        /\ (network \/ ~Ok(ServeItemById(file, itemFetches[i].id))))
         => ShowsNoItem(detail')
    ]_allVars

\* C26: when ItemDetail unmounts or its id changes while the timer is armed,
\* the timer is cleared and no fetch is sent by it: an armed timer is always
\* the one of the id on display.
C26_TimerCleared ==
  /\ [](detail.handlers \subseteq
          (IF detail.mounted THEN {detail.id} ELSE {}))
  /\ [][((DetailUnmount \/ \E id \in DetailIds : DetailChangeId(id))
           /\ detail.id \in detail.handlers)
          => /\ detail.id \notin detail'.handlers
             /\ Len(itemFetches') = Len(itemFetches)
      ]_allVars
  /\ [][Len(itemFetches') > Len(itemFetches)
          => /\ detail.mounted
             /\ itemFetches'[Len(itemFetches')].id = detail.id
      ]_allVars

C26_Witness ==
  /\ detail.mounted
  /\ detail.id = <<"1">>
  /\ detail.cleared = {<<"9">>}
  /\ detail.handlers = {}
  /\ itemFetches # <<>>
  /\ \A i \in 1..Len(itemFetches) : itemFetches[i].id = <<"1">>

====
